---- MODULE Spec2Model ----
(***************************************************************************)
(* Model of manage_bitbucket_env.py: main (credentials, dispatch on the     *)
(* flags, exit status), the resolution of a deployment name, the paginated  *)
(* retrieval of an environment's variables, the three export projections    *)
(* and the writing of their file, and the import reconciliation             *)
(* (update_vars), run against a remote store that answers GET, PUT and POST *)
(* requests and that other clients may write to.                            *)
(***************************************************************************)
EXTENDS Integers, Sequences, FiniteSets, TLC

VARIABLES
    envs,               \* remote: the environments of the repository, as listed
    store,              \* remote: the variables of the environment, in stored order
    chain,              \* remote: the pages served for the variables, each [values, next]
    next_uuid,          \* remote: the uuid the next created variable gets
    op,                 \* the function under execution (entry point of the run)
    deployment_name,    \* argument: the deployment name to resolve
    update_all,         \* argument of import_variables
    input_file,         \* content of the JSON input file of an import
    pc,                 \* position of the run
    environment_uuid,   \* result of get_environment_uuid (0 before)
    url,                \* get_variables: the page to request next (0: None)
    all_variables,      \* get_variables: the entries accumulated so far
    variables,          \* the list get_variables returned (variables / existing_vars)
    import_vars,        \* import_variables: the entries loaded from the file
    i,                  \* import_variables: index of the entry the loop is at
    requests,           \* every request issued in this run, in order
    calls,              \* every update_vars invocation of this run, in order
    error,              \* "" or the exception that ended the run
    output_file,        \* the file at the output path: <<>> none, <<a>> the complete
                        \* JSON array a, <<a, "partial">> opened for writing and
                        \* holding no more than the part a of an array
    runs,               \* the earlier runs of the session: [ok, store, requests]
    main_args,          \* main: the parsed flags, each <<>> (None) or <<argument>>
    environ,            \* main: the two credentials, each <<>> (unset) or <<text>>
    file_path,          \* main: the file argument the operation was called with
    exit_code,          \* <<>> while the process runs, else <<code>>
    main_log,           \* what main logged, in order
    input_status,       \* the input path: "ok", "missing", "unreadable", "malformed"
    external            \* remote: the changes other clients made, in order

\* The state of main around the operation it starts.
main_vars == <<main_args, environ, file_path, exit_code, main_log>>

vars == <<envs, store, chain, next_uuid, op, deployment_name, update_all,
          input_file, pc, environment_uuid, url, all_variables, variables,
          import_vars, i, requests, calls, error, output_file, runs,
          main_vars, input_status, external>>

----------------------------------------------------------------------------
(* Bounds of the model *)

MaxEnvs == 3        \* environments listed (SpecResolve)
MaxPages == 3       \* pages of a chain (SpecFetch)
MaxPageLen == 2     \* entries of one page (SpecFetch)
MaxGets == 4        \* GETs after which a non-terminating fetch is cut (SpecFetch)
MaxStore == 3       \* variables the remote holds at the start (SpecExport)
MaxExisting == 2    \* variables the remote holds at the start (SpecImport)
MaxLocal == 2       \* entries of the input file (SpecImport)
MaxMainStore == 1   \* variables the remote holds at the start (SpecMain,
                    \* SpecSession, SpecConcurrent)
MaxMainLocal == 1   \* entries of the input file (SpecMain, SpecSession)
MaxExternal == 1    \* changes other clients make during a run (SpecConcurrent)

EnvNames == {"prod", "staging", "dev"}
Keys == {"A", "B"}
Values == {"x", "y"}

RECURSIVE SeqsUpTo(_, _)
SeqsUpTo(S, n) ==
    IF n = 0 THEN {<<>>}
    ELSE LET shorter == SeqsUpTo(S, n - 1)
         IN  shorter \cup {Append(s, x) : s \in {t \in shorter : Len(t) = n - 1}, x \in S}

----------------------------------------------------------------------------
(* The remote side *)

\* The environment the remote lists at position j.
Env(name, j) == [name |-> name, uuid |-> j]

\* GET .../environments answers {"values": [{name, uuid}, ...]}.
EnvLists(max) ==
    UNION {{[j \in 1..n |-> Env(names[j], j)] : names \in [1..n -> EnvNames]}
           : n \in 0..max}

\* An entry of page p of a chain: distinct entries on distinct places.
PageEntry(p, j) ==
    [uuid |-> 10 * p + j, key |-> IF j % 2 = 1 THEN "A" ELSE "B",
     value |-> "v", secured |-> FALSE]

\* GET .../variables answers {"values": [...], "next": url}; next = 0: no link.
\* A chain is what the remote serves at each page url: page p holds lens[p]
\* entries and links to page nexts[p], which may be any page.
Chain(lens, nexts) ==
    [p \in DOMAIN lens |-> [values |-> [j \in 1..lens[p] |-> PageEntry(p, j)],
                            next |-> nexts[p]]]

\* The variables the remote holds: the j-th has uuid j.
StoresOver(vals, n) ==
    {[j \in 1..Len(s) |-> [uuid |-> j, key |-> s[j].key, value |-> s[j].value,
                            secured |-> s[j].secured]]
     : s \in SeqsUpTo([key : Keys, value : vals, secured : BOOLEAN], n)}

\* The entries of an input file: {key, value, secured}, secured possibly missing.
LocalVars ==
    [key : Keys, value : Values, secured : BOOLEAN] \cup [key : Keys, value : Values]

\* A request as the remote receives it; body is <<>> or <<payload>>.
Request(method, path, id, body, ok) ==
    [method |-> method, path |-> path, id |-> id, body |-> body, ok |-> ok]

----------------------------------------------------------------------------
(* get_environment_uuid *)

\* The scan keeps the last environment of that name instead of the first.
RECURSIVE LastEnvFrom(_, _, _)
LastEnvFrom(environments, name, j) ==
    IF j = 0 THEN 0
    ELSE IF environments[j].name = name THEN j
    ELSE LastEnvFrom(environments, name, j - 1)

LastEnv(environments, name) == LastEnvFrom(environments, name, Len(environments))

\* for env in environments: if env["name"] == deployment_name: return env["uuid"]
RECURSIVE FirstEnvFrom(_, _, _)
FirstEnvFrom(environments, name, j) ==
    IF j > Len(environments) THEN 0
    ELSE IF environments[j].name = name THEN j
    ELSE FirstEnvFrom(environments, name, j + 1)

FirstEnv(environments, name) == FirstEnvFrom(environments, name, 1)

\* Where the run goes when a function returns to its caller.
AfterResolve == IF op = "get_environment_uuid" THEN "done" ELSE "fetch"

AfterFetch ==
    CASE op = "get_variables" -> "done"
      [] op = "import_variables" -> "read"
      [] OTHER -> "export"

Raise(exc) ==
    /\ pc' = "failed"
    /\ error' = exc

GetEnvironmentUuid ==
    /\ pc = "resolve"
    /\ \E ok \in BOOLEAN :
        /\ requests' = Append(requests, Request("GET", "environments", 0, <<>>, ok))
        /\ \/ /\ ~ok                                   \* raise_for_status()
              /\ Raise("RequestException")
              /\ UNCHANGED <<environment_uuid, url, all_variables>>
           \/ /\ ok
              /\ FirstEnv(envs, deployment_name) = 0
              /\ Raise("ValueError")
              /\ UNCHANGED <<environment_uuid, url, all_variables>>
           \/ /\ ok
              /\ FirstEnv(envs, deployment_name) # 0
              /\ environment_uuid' = envs[FirstEnv(envs, deployment_name)].uuid
              /\ pc' = AfterResolve
              /\ url' = 1
              /\ all_variables' = <<>>
              /\ UNCHANGED error
    /\ UNCHANGED <<main_vars, input_status, external,
                   envs, store, chain, next_uuid, op, deployment_name, update_all,
                   input_file, variables, import_vars, i, calls, output_file, runs>>

----------------------------------------------------------------------------
(* get_variables: one iteration of `while url` per step *)

IsPageGet(r) == r.method = "GET" /\ r.path = "variables"

\* A page that ends the fetch whatever its link, dropped: it must also lack a link.
NoVariablesAndNoLink(page) == page.values = <<>> /\ page.next = 0

\* if not variables: return all_variables
NoVariables(page) == page.values = <<>>

\* The page's entries put in front of the accumulated ones.
ExtendInFront(all, page_values) == page_values \o all

\* all_variables.extend(variables)
Extend(all, page_values) == all \o page_values

\* A link to a page that was requested before is not followed: the fetch ends.
NextUnlessRequested(page) ==
    IF page.next = url \/ \E k \in 1..Len(requests) :
                             IsPageGet(requests[k]) /\ requests[k].id = page.next
    THEN 0
    ELSE page.next

\* url = data.get("next")
NextLink(page) == page.next

GetVariables ==
    /\ pc = "fetch"
    /\ url # 0
    /\ op = "get_variables" => Len(SelectSeq(requests, IsPageGet)) < MaxGets
    /\ \E ok \in BOOLEAN :
        /\ requests' = Append(requests, Request("GET", "variables", url, <<>>, ok))
        /\ \/ /\ ~ok                                   \* raise_for_status()
              /\ Raise("RequestException")
              /\ UNCHANGED <<url, all_variables, variables>>
           \/ /\ ok
              /\ NoVariables(chain[url])
              /\ variables' = all_variables
              /\ pc' = AfterFetch
              /\ UNCHANGED <<url, all_variables, error>>
           \/ /\ ok
              /\ ~NoVariables(chain[url])
              /\ all_variables' = Extend(all_variables, chain[url].values)
              /\ url' = NextLink(chain[url])
              /\ IF url' = 0                           \* while url
                 THEN /\ variables' = all_variables'
                      /\ pc' = AfterFetch
                 ELSE UNCHANGED <<variables, pc>>
              /\ UNCHANGED error
    /\ UNCHANGED <<main_vars, input_status, external,
                   envs, store, chain, next_uuid, op, deployment_name, update_all,
                   input_file, environment_uuid, import_vars, i, calls,
                   output_file, runs>>

----------------------------------------------------------------------------
(* The three exports *)

\* The secured test of export_variables dropped: every entry is exported.
RECURSIVE EveryVar(_)
EveryVar(vs) ==
    IF vs = <<>> THEN <<>>
    ELSE <<[key |-> Head(vs).key, value |-> Head(vs).value,
            secured |-> Head(vs).secured]>> \o EveryVar(Tail(vs))

\* The secured test of export_secret_keys inverted.
RECURSIVE NonSecretKeys(_)
NonSecretKeys(vs) ==
    IF vs = <<>> THEN <<>>
    ELSE (IF ~Head(vs).secured THEN <<Head(vs).key>> ELSE <<>>)
         \o NonSecretKeys(Tail(vs))

\* export_variables: the loop that builds export_vars.
RECURSIVE NonSecuredVars(_)
NonSecuredVars(vs) ==
    IF vs = <<>> THEN <<>>
    ELSE LET var == Head(vs)
         IN  (IF ~var.secured
              THEN <<[key |-> var.key, value |-> var.value, secured |-> var.secured]>>
              ELSE <<>>) \o NonSecuredVars(Tail(vs))

\* export_all_variables without the blanking of secured values.
AllVarsUnredacted(vs) == EveryVar(vs)

\* export_all_variables: the loop that builds export_vars, secured values blanked.
RECURSIVE AllVarsRedacted(_)
AllVarsRedacted(vs) ==
    IF vs = <<>> THEN <<>>
    ELSE LET var == Head(vs)
         IN  <<IF var.secured
               THEN [key |-> var.key, value |-> "", secured |-> var.secured]
               ELSE [key |-> var.key, value |-> var.value, secured |-> var.secured]>>
             \o AllVarsRedacted(Tail(vs))

\* export_secret_keys: [var["key"] for var in variables if var["secured"]]
RECURSIVE SecretKeys(_)
SecretKeys(vs) ==
    IF vs = <<>> THEN <<>>
    ELSE LET var == Head(vs)
         IN  (IF var.secured THEN <<var.key>> ELSE <<>>) \o SecretKeys(Tail(vs))

\* An array of which no more than the first n elements reached the file.
PartialFile(content, n) == <<SubSeq(content, 1, n), "partial">>

\* The `if not variables` test dropped: an empty list is written like any other.
AlwaysWrite(vs) == FALSE

\* if not variables: ... return
NothingToExport(vs) == vs = <<>>

\* The body the three exports share after the fetch. Nothing is opened for an
\* empty list. Else open(output_file, "w") truncates the file at the path, and
\* json.dump and the close of the `with` block write the projection into it;
\* either step may fail with an OSError, which leaves what was written so far.
WriteExport(content) ==
    /\ \/ /\ pc = "export"
          /\ NothingToExport(variables)
          /\ pc' = "done"
          /\ UNCHANGED <<output_file, error>>
       \/ /\ pc = "export"
          /\ ~NothingToExport(variables)
          /\ \/ /\ Raise("PermissionError")           \* open() fails
                /\ UNCHANGED output_file
             \/ /\ output_file' = PartialFile(content, 0)
                /\ pc' = "dump"
                /\ UNCHANGED error
       \/ /\ pc = "dump"
          /\ \/ /\ output_file' = <<content>>
                /\ pc' = "done"
                /\ UNCHANGED error
             \/ /\ \E n \in 0..Len(content) : output_file' = PartialFile(content, n)
                /\ Raise("OSError")
    /\ UNCHANGED <<main_vars, input_status, external,
                   envs, store, chain, next_uuid, op, deployment_name, update_all,
                   input_file, environment_uuid, url, all_variables, variables,
                   import_vars, i, requests, calls, runs>>

ExportVariables ==
    /\ op = "export_variables"
    /\ WriteExport(NonSecuredVars(variables))

ExportAllVariables ==
    /\ op = "export_all_variables"
    /\ WriteExport(AllVarsRedacted(variables))

ExportSecretKeys ==
    /\ op = "export_secret_keys"
    /\ WriteExport(SecretKeys(variables))

----------------------------------------------------------------------------
(* The remote store's handling of the variable requests *)

\* The store as served with ?pagelen=1: one entry a page, a next link on all but
\* the last; an empty store is served as one empty page.
PagesOf(st) ==
    IF st = <<>> THEN <<[values |-> <<>>, next |-> 0]>>
    ELSE [p \in 1..Len(st) |->
            [values |-> <<st[p]>>, next |-> IF p < Len(st) THEN p + 1 ELSE 0]]

Stored(u, body) ==
    [uuid |-> u, key |-> body.key, value |-> body.value, secured |-> body.secured]

\* PUT .../variables/{u}: the entry with uuid u takes the body's fields.
RemotePut(st, u, body) ==
    [j \in 1..Len(st) |-> IF st[j].uuid = u THEN Stored(u, body) ELSE st[j]]

\* POST .../variables: a new entry under a uuid the remote assigns.
RemotePost(st, u, body) == Append(st, Stored(u, body))

\* DELETE .../variables/{u}: the entry with uuid u is gone.
RemoteDelete(st, u) == SelectSeq(st, LAMBDA e : e.uuid # u)

----------------------------------------------------------------------------
(* update_vars and import_variables *)

\* The match taken from the end of existing_vars instead of the front.
RECURSIVE LastMatchFrom(_, _, _)
LastMatchFrom(existing_vars, key, j) ==
    IF j = 0 THEN 0
    ELSE IF existing_vars[j].key = key THEN j
    ELSE LastMatchFrom(existing_vars, key, j - 1)

LastMatch(existing_vars, key) == LastMatchFrom(existing_vars, key, Len(existing_vars))

\* next((v for v in existing_vars if v["key"] == var["key"]), None)
RECURSIVE FirstMatchFrom(_, _, _)
FirstMatchFrom(existing_vars, key, j) ==
    IF j > Len(existing_vars) THEN 0
    ELSE IF existing_vars[j].key = key THEN j
    ELSE FirstMatchFrom(existing_vars, key, j + 1)

FirstMatch(existing_vars, key) == FirstMatchFrom(existing_vars, key, 1)

\* payload = {"key", "value", "secured", "environment": {type, uuid}}
Payload(var, env_uuid) ==
    [key |-> var.key, value |-> var.value, secured |-> var.secured,
     environment |-> [type |-> "deployment_environment", uuid |-> env_uuid]]

\* var["value"] and var["secured"] raise KeyError on an entry without the field.
HasPayloadFields(var) == {"key", "value", "secured"} \subseteq DOMAIN var

\* The skip test dropped: no entry counts as secured.
NeverSecured(var) == FALSE

\* var.get("secured", False)
GetSecured(var) == IF "secured" \in DOMAIN var THEN var.secured ELSE FALSE

\* update_vars without the lookup: every entry is created.
AlwaysCreate(existing_vars, var, env_uuid, ok) ==
    Request("POST", "variables", 0, <<Payload(var, env_uuid)>>, ok)

\* update_vars removing the entry it finds instead of updating it.
DeleteExisting(existing_vars, var, env_uuid, ok) ==
    LET m == FirstMatch(existing_vars, var.key)
    IN  IF m # 0
        THEN Request("DELETE", "variables", existing_vars[m].uuid, <<>>, ok)
        ELSE Request("POST", "variables", 0, <<Payload(var, env_uuid)>>, ok)

\* update_vars looking the key up in what the remote holds at the time of the
\* call instead of in existing_vars.
LookUpRemote(existing_vars, var, env_uuid, ok) ==
    LET m == FirstMatch(store, var.key)
    IN  IF m # 0
        THEN Request("PUT", "variables", store[m].uuid, <<Payload(var, env_uuid)>>, ok)
        ELSE Request("POST", "variables", 0, <<Payload(var, env_uuid)>>, ok)

\* The request update_vars issues for var against existing_vars.
UpdateRequest(existing_vars, var, env_uuid, ok) ==
    LET m == FirstMatch(existing_vars, var.key)
    IN  IF m # 0
        THEN Request("PUT", "variables", existing_vars[m].uuid,
                     <<Payload(var, env_uuid)>>, ok)
        ELSE Request("POST", "variables", 0, <<Payload(var, env_uuid)>>, ok)

\* What the remote holds after a request that succeeded.
Applied(st, req, u) ==
    CASE req.method = "PUT" -> RemotePut(st, req.id, req.body[1])
      [] req.method = "DELETE" -> RemoteDelete(st, req.id)
      [] OTHER -> RemotePost(st, u, req.body[1])

\* update_vars with the failure of the write swallowed: the loop carries on.
UpdateVarsCarryOn(var) ==
    /\ HasPayloadFields(var)
    /\ \E ok \in BOOLEAN :
        LET req == UpdateRequest(variables, var, environment_uuid, ok)
        IN  /\ requests' = Append(requests, req)
            /\ calls' = Append(calls, [entry |-> i, var |-> var,
                                       from |-> Len(requests),
                                       to |-> Len(requests) + 1])
            /\ store' = IF ok THEN Applied(store, req, next_uuid) ELSE store
            /\ chain' = PagesOf(store')
            /\ next_uuid' = IF ok /\ req.method = "POST"
                            THEN next_uuid + 1 ELSE next_uuid
            /\ i' = i + 1
            /\ UNCHANGED <<pc, error>>

\* update_vars(existing_vars = variables, var): one call, from entry to return
\* or raise. calls records the call and the span of the request log it covers.
UpdateVars(var) ==
    \/ /\ ~HasPayloadFields(var)                       \* KeyError building the payload
       /\ calls' = Append(calls, [entry |-> i, var |-> var, from |-> Len(requests),
                                  to |-> Len(requests)])
       /\ Raise("KeyError")
       /\ UNCHANGED <<requests, store, chain, next_uuid, i>>
    \/ /\ HasPayloadFields(var)
       /\ \E ok \in BOOLEAN :
           LET req == UpdateRequest(variables, var, environment_uuid, ok)
           IN  /\ requests' = Append(requests, req)
               /\ calls' = Append(calls, [entry |-> i, var |-> var,
                                          from |-> Len(requests),
                                          to |-> Len(requests) + 1])
               /\ IF ok
                  THEN /\ store' = Applied(store, req, next_uuid)
                       /\ chain' = PagesOf(store')
                       /\ next_uuid' = IF req.method = "POST"
                                       THEN next_uuid + 1 ELSE next_uuid
                       /\ i' = i + 1
                       /\ UNCHANGED <<pc, error>>
                  ELSE /\ Raise("RequestException")    \* raise_for_status()
                       /\ UNCHANGED <<store, chain, next_uuid, i>>

\* with open(input_file) as f: import_vars = json.load(f)
ReadInputFile ==
    /\ pc = "read"
    /\ \/ /\ input_status = "ok"
          /\ import_vars' = input_file
          /\ i' = 1
          /\ pc' = "loop"
          /\ UNCHANGED error
       \/ /\ input_status = "missing"                   \* open() fails
          /\ Raise("FileNotFoundError")
          /\ UNCHANGED <<import_vars, i>>
       \/ /\ input_status = "unreadable"                \* open() fails
          /\ Raise("PermissionError")
          /\ UNCHANGED <<import_vars, i>>
       \/ /\ input_status = "malformed"                 \* json.load() fails
          /\ Raise("JSONDecodeError")
          /\ UNCHANGED <<import_vars, i>>
    /\ UNCHANGED <<main_vars, input_status, external,
                   envs, store, chain, next_uuid, op, deployment_name, update_all,
                   input_file, environment_uuid, url, all_variables, variables,
                   requests, calls, output_file, runs>>

\* The loop walking the list from its end.
Backwards(vs, k) == vs[Len(vs) + 1 - k]

\* for var in import_vars: the entry of the k-th iteration.
Current(vs, k) == vs[k]

\* One iteration of `for var in import_vars`, in either branch of update_all.
ImportEntry ==
    /\ pc = "loop"
    /\ i <= Len(import_vars)
    /\ \/ /\ ~update_all
          /\ GetSecured(Current(import_vars, i))       \* skipped: continue
          /\ i' = i + 1
          /\ UNCHANGED <<store, chain, next_uuid, pc, requests, calls, error>>
       \/ /\ update_all \/ ~GetSecured(Current(import_vars, i))
          /\ UpdateVars(Current(import_vars, i))
    /\ UNCHANGED <<main_vars, input_status, external,
                   envs, op, deployment_name, update_all, input_file,
                   environment_uuid, url, all_variables, variables, import_vars,
                   output_file, runs>>

\* The loop is over: "Variable import completed".
ImportCompleted ==
    /\ pc = "loop"
    /\ i > Len(import_vars)
    /\ pc' = "done"
    /\ UNCHANGED <<main_vars, input_status, external,
                   envs, store, chain, next_uuid, op, deployment_name, update_all,
                   input_file, environment_uuid, url, all_variables, variables,
                   import_vars, i, requests, calls, error, output_file, runs>>

\* The same import is run a second time after the first completed: the run's
\* state starts afresh, the remote and the input file are as the first left them.
RunAgain ==
    /\ pc = "done"
    /\ op = "import_variables"
    /\ runs = <<>>
    /\ runs' = Append(runs, [ok |-> TRUE, store |-> store, requests |-> requests])
    /\ pc' = "resolve"
    /\ environment_uuid' = 0
    /\ url' = 0
    /\ all_variables' = <<>>
    /\ variables' = <<>>
    /\ import_vars' = <<>>
    /\ i' = 0
    /\ requests' = <<>>
    /\ calls' = <<>>
    /\ UNCHANGED <<main_vars, input_status, external,
                   envs, store, chain, next_uuid, op, deployment_name, update_all,
                   input_file, error, output_file>>

----------------------------------------------------------------------------
(* main *)

\* The destinations of the five flags, in the order main tests them.
Flags == <<"output", "all_vars_output", "export_secret_keys", "import_file",
           "import_all">>

FlagSet == {Flags[k] : k \in 1..Len(Flags)}

\* arg_parser: the group is required and mutually exclusive, so exactly one of
\* the five destinations holds an argument, any text, and the others are None.
ParsedArgs(paths) ==
    {[f \in FlagSet |-> IF f = g THEN <<path>> ELSE <<>>] : g \in FlagSet, path \in paths}

\* The truth value of an optional text: None and "" are false.
Truthy(t) == t # <<>> /\ t[1] # ""

\* The test of the credentials with the password left out.
UsernameMissing(env) == ~Truthy(env.BITBUCKET_USERNAME)

\* if not username or not app_password
CredentialsMissing(env) ==
    ~Truthy(env.BITBUCKET_USERNAME) \/ ~Truthy(env.BITBUCKET_APP_PASSWORD)

\* The branch of the if/elif chain that is taken: the first flag whose
\* destination is true, 0 when none is.
RECURSIVE SelectedFrom(_, _)
SelectedFrom(args, k) ==
    IF k > Len(Flags) THEN 0
    ELSE IF Truthy(args[Flags[k]]) THEN k
    ELSE SelectedFrom(args, k + 1)

Selected(args) == SelectedFrom(args, 1)

\* Every flag starts the import.
AlwaysImport(flag) == "import_variables"

\* The function each branch calls.
Operation(flag) ==
    CASE flag = "output" -> "export_variables"
      [] flag = "all_vars_output" -> "export_all_variables"
      [] flag = "export_secret_keys" -> "export_secret_keys"
      [] OTHER -> "import_variables"

\* The flags of a session: the exports write out.json, the imports read in.json.
SessionArgs ==
    {a \in ParsedArgs({"in.json", "out.json"}) :
        (a.import_file = <<>> /\ a.import_all = <<>>) <=> <<"out.json">> \in
            {a.output, a.all_vars_output, a.export_secret_keys}}

\* The classes an exception is an instance of.
Classes(exc) ==
    CASE exc = "FileNotFoundError" -> {"FileNotFoundError", "OSError"}
      [] exc = "PermissionError" -> {"PermissionError", "OSError"}
      [] exc = "RequestException" -> {"RequestException", "OSError"}
      [] exc = "JSONDecodeError" -> {"JSONDecodeError", "ValueError"}
      [] OTHER -> {exc}

\* The except clauses of main, in order, and what each logs.
Handlers == <<[class |-> "RequestException", msg |-> "API error"],
              [class |-> "ValueError", msg |-> "Error"],
              [class |-> "FileNotFoundError", msg |-> "File error"]>>

Handling(exc) == {k \in 1..Len(Handlers) : Handlers[k].class \in Classes(exc)}

Caught(exc) == Handling(exc) # {}

Logged(level, msg) == Append(main_log, [level |-> level, msg |-> msg])

\* main up to the call of the operation: the credentials, then the dispatch.
MainStart ==
    /\ pc = "main"
    /\ IF CredentialsMissing(environ)
       THEN /\ main_log' = Logged("error", "credentials must be set")
            /\ exit_code' = <<1>>                       \* sys.exit(1)
            /\ pc' = "exited"
            /\ UNCHANGED <<op, update_all, file_path>>
       ELSE /\ UNCHANGED <<main_log, exit_code>>
            /\ IF Selected(main_args) = 0
               THEN /\ pc' = "done"                     \* no branch is taken
                    /\ UNCHANGED <<op, update_all, file_path>>
               ELSE LET flag == Flags[Selected(main_args)]
                    IN  /\ op' = Operation(flag)
                        /\ update_all' = (flag = "import_all")
                        /\ file_path' = main_args[flag]
                        /\ pc' = "resolve"
    /\ UNCHANGED <<main_args, environ, input_status, external, envs, store, chain,
                   next_uuid, deployment_name, input_file, environment_uuid, url,
                   all_variables, variables, import_vars, i, requests, calls,
                   error, output_file, runs>>

\* The operation returned: "Operation completed successfully", exit status 0.
MainReturn ==
    /\ pc = "done"
    /\ main_log' = Logged("info", "Operation completed successfully")
    /\ exit_code' = <<0>>
    /\ pc' = "exited"
    /\ UNCHANGED <<main_args, environ, file_path, input_status, external, envs,
                   store, chain, next_uuid, op, deployment_name, update_all,
                   input_file, environment_uuid, url, all_variables, variables,
                   import_vars, i, requests, calls, error, output_file, runs>>

\* The operation raised: the first matching except clause logs the error and
\* calls sys.exit(1); an exception no clause matches leaves main, and the
\* interpreter prints the traceback and ends the process with status 1.
MainExcept ==
    /\ pc = "failed"
    /\ IF Caught(error)
       THEN LET k == CHOOSE h \in Handling(error) : \A g \in Handling(error) : h <= g
            IN  main_log' = Logged("error", Handlers[k].msg)
       ELSE UNCHANGED main_log
    /\ exit_code' = <<1>>
    /\ pc' = "exited"
    /\ UNCHANGED <<main_args, environ, file_path, input_status, external, envs,
                   store, chain, next_uuid, op, deployment_name, update_all,
                   input_file, environment_uuid, url, all_variables, variables,
                   import_vars, i, requests, calls, error, output_file, runs>>

\* Another client of the remote creates a variable, or changes the value of
\* one, while the import is in its loop.
External ==
    /\ pc = "loop"
    /\ Len(external) < MaxExternal
    /\ \/ \E key \in Keys :
             /\ store' = RemotePost(store, next_uuid,
                                    [key |-> key, value |-> "theirs", secured |-> FALSE])
             /\ next_uuid' = next_uuid + 1
             /\ external' = Append(external, [created |-> key, at |-> Len(requests)])
       \/ \E j \in 1..Len(store) :
             /\ store' = RemotePut(store, store[j].uuid,
                                   [key |-> store[j].key, value |-> "theirs",
                                    secured |-> store[j].secured])
             /\ next_uuid' = next_uuid
             /\ external' = Append(external, [created |-> "", at |-> Len(requests)])
    /\ chain' = PagesOf(store')
    /\ UNCHANGED <<main_vars, input_status, envs, op, deployment_name, update_all,
                   input_file, pc, environment_uuid, url, all_variables, variables,
                   import_vars, i, requests, calls, error, output_file, runs>>

\* The process has ended and the program is started once more, with any flag,
\* any number of times: the remote and the files are as the earlier runs left
\* them.
MainAgain ==
    /\ pc = "exited"
    /\ main_args' \in SessionArgs
    /\ op' = "main"
    /\ pc' = "main"
    /\ update_all' = FALSE
    /\ file_path' = <<>>
    /\ exit_code' = <<>>
    /\ main_log' = <<>>
    /\ error' = ""
    /\ environment_uuid' = 0
    /\ url' = 0
    /\ all_variables' = <<>>
    /\ variables' = <<>>
    /\ import_vars' = <<>>
    /\ i' = 0
    /\ requests' = <<>>
    /\ calls' = <<>>
    /\ UNCHANGED <<environ, input_status, external, envs, store, chain, next_uuid,
                   deployment_name, input_file, output_file, runs>>

----------------------------------------------------------------------------
(* Specifications *)

\* The state before a run of entry point f with nothing fetched yet.
Fresh(f, start) ==
    /\ op = f
    /\ pc = start
    /\ environment_uuid = 0
    /\ url = 0
    /\ all_variables = <<>>
    /\ variables = <<>>
    /\ import_vars = <<>>
    /\ i = 0
    /\ requests = <<>>
    /\ calls = <<>>
    /\ error = ""
    /\ runs = <<>>
    /\ external = <<>>

\* A function called on its own: no process around it, no files in its way.
NoMain ==
    /\ main_args = <<>>
    /\ environ = <<>>
    /\ file_path = <<>>
    /\ exit_code = <<>>
    /\ main_log = <<>>

\* get_environment_uuid called on its own against any list of environments.
InitResolve ==
    /\ envs \in EnvLists(MaxEnvs)
    /\ deployment_name \in EnvNames
    /\ store = <<>>
    /\ chain = <<[values |-> <<>>, next |-> 0]>>
    /\ next_uuid = 1
    /\ update_all = FALSE
    /\ input_file = <<>>
    /\ input_status = "ok"
    /\ output_file = <<>>
    /\ NoMain
    /\ Fresh("get_environment_uuid", "resolve")

NextResolve == GetEnvironmentUuid

SpecResolve == InitResolve /\ [][NextResolve]_vars

\* get_variables called on its own against any chain of pages.
InitFetchOf(max_len) ==
    /\ envs = <<Env("staging", 1)>>
    /\ deployment_name = "staging"
    /\ store = <<>>
    /\ \E n \in 1..MaxPages :
          \E lens \in [1..n -> 0..max_len], nexts \in [1..n -> 0..n] :
              chain = Chain(lens, nexts)
    /\ next_uuid = 1
    /\ update_all = FALSE
    /\ input_file = <<>>
    /\ op = "get_variables"
    /\ pc = "fetch"
    /\ environment_uuid = 1
    /\ url = 1
    /\ all_variables = <<>>
    /\ variables = <<>>
    /\ import_vars = <<>>
    /\ i = 0
    /\ requests = <<>>
    /\ calls = <<>>
    /\ error = ""
    /\ output_file = <<>>
    /\ runs = <<>>
    /\ external = <<>>
    /\ input_status = "ok"
    /\ NoMain

InitFetch == InitFetchOf(MaxPageLen)

NextFetch == GetVariables

SpecFetch == InitFetch /\ [][NextFetch]_vars

\* The same with the loop of get_variables going on as long as it can, against
\* the chains whose pages hold one entry or none: whether the fetch ends depends
\* on which pages are empty and where they link, not on how many entries a page
\* holds.
InitFetchFair == InitFetchOf(1)

SpecFetchFair == InitFetchFair /\ [][NextFetch]_vars /\ WF_vars(GetVariables)

\* What an earlier export of the same kind left at the output path.
Previous(f) ==
    IF f = "export_secret_keys" THEN <<"OLD">>
    ELSE <<[key |-> "OLD", value |-> "old", secured |-> FALSE]>>

\* An export run from main's call on: resolve, fetch, project, write.
InitExport ==
    /\ envs = <<Env("prod", 1), Env("staging", 2)>>
    /\ deployment_name \in {"staging", "dev"}
    /\ store \in StoresOver(Values, MaxStore)
    /\ chain = PagesOf(store)
    /\ next_uuid = Len(store) + 1
    /\ update_all = FALSE
    /\ input_file = <<>>
    /\ input_status = "ok"
    /\ NoMain
    /\ \E f \in {"export_variables", "export_all_variables", "export_secret_keys"} :
          /\ Fresh(f, "resolve")
          /\ output_file \in {<<>>, <<Previous(f)>>}

NextExport ==
    \/ GetEnvironmentUuid
    \/ GetVariables
    \/ ExportVariables
    \/ ExportAllVariables
    \/ ExportSecretKeys

SpecExport == InitExport /\ [][NextExport]_vars

\* An import run, plain or with update_all, and the same import run again.
InitImport ==
    /\ envs = <<Env("prod", 1), Env("staging", 2)>>
    /\ deployment_name \in {"staging", "dev"}
    /\ store \in StoresOver({"old"}, MaxExisting)
    /\ chain = PagesOf(store)
    /\ next_uuid = Len(store) + 1
    /\ update_all \in BOOLEAN
    /\ input_file \in SeqsUpTo(LocalVars, MaxLocal)
    /\ input_status = "ok"
    /\ output_file = <<>>
    /\ NoMain
    /\ Fresh("import_variables", "resolve")

NextImport ==
    \/ GetEnvironmentUuid
    \/ GetVariables
    \/ ReadInputFile
    \/ ImportEntry
    \/ ImportCompleted
    \/ RunAgain

SpecImport == InitImport /\ [][NextImport]_vars

\* The input path of an import: a readable file of entries, or no usable file.
InputFiles(n) ==
    {[status |-> "ok", content |-> c] : c \in SeqsUpTo(LocalVars, n)}
    \cup {[status |-> st, content |-> <<>>] : st \in {"missing", "unreadable", "malformed"}}

OptionalTexts(t) == {<<>>, <<"">>, <<t>>}

\* A run of the program: main, started with any flag and any credentials.
InitMain ==
    /\ envs = <<Env("prod", 1), Env("staging", 2)>>
    /\ deployment_name \in {"staging", "dev"}
    /\ store \in StoresOver({"old"}, MaxMainStore)
    /\ chain = PagesOf(store)
    /\ next_uuid = Len(store) + 1
    /\ update_all = FALSE
    /\ environ \in [BITBUCKET_USERNAME : OptionalTexts("user"),
                    BITBUCKET_APP_PASSWORD : OptionalTexts("secret")]
    /\ main_args \in ParsedArgs({"", "vars.json"})
    /\ file_path = <<>>
    /\ exit_code = <<>>
    /\ main_log = <<>>
    /\ IF main_args.import_file # <<>> \/ main_args.import_all # <<>>
       THEN /\ \E f \in InputFiles(MaxMainLocal) :
                  /\ input_status = f.status
                  /\ input_file = f.content
            /\ output_file = <<>>
       ELSE /\ input_status = "ok"
            /\ input_file = <<>>
            /\ \E g \in FlagSet :
                  /\ main_args[g] # <<>>
                  /\ output_file \in {<<>>, <<Previous(Operation(g))>>}
    /\ Fresh("main", "main")

NextMain ==
    \/ MainStart
    \/ GetEnvironmentUuid
    \/ GetVariables
    \/ ExportVariables
    \/ ExportAllVariables
    \/ ExportSecretKeys
    \/ ReadInputFile
    \/ ImportEntry
    \/ ImportCompleted
    \/ MainReturn
    \/ MainExcept

SpecMain == InitMain /\ [][NextMain]_vars

\* The entries a client writes in this model's sessions and shared remotes.
NewVars == [key : Keys, value : {"new"}, secured : BOOLEAN]

\* An import run while other clients write to the same environment.
InitConcurrent ==
    /\ envs = <<Env("prod", 1), Env("staging", 2)>>
    /\ deployment_name = "staging"
    /\ store \in StoresOver({"old"}, MaxMainStore)
    /\ chain = PagesOf(store)
    /\ next_uuid = Len(store) + 1
    /\ update_all \in BOOLEAN
    /\ input_file \in SeqsUpTo(NewVars, MaxLocal)
    /\ input_status = "ok"
    /\ output_file = <<>>
    /\ NoMain
    /\ Fresh("import_variables", "resolve")

NextConcurrent ==
    \/ GetEnvironmentUuid
    \/ GetVariables
    \/ ReadInputFile
    \/ ImportEntry
    \/ ImportCompleted
    \/ External

SpecConcurrent == InitConcurrent /\ [][NextConcurrent]_vars

\* A session: the program run again and again against the same remote, the
\* credentials in place, each run with any of the five flags.
InitSession ==
    /\ envs = <<Env("prod", 1), Env("staging", 2)>>
    /\ deployment_name = "staging"
    /\ store \in StoresOver({"old"}, MaxMainStore)
    /\ chain = PagesOf(store)
    /\ next_uuid = Len(store) + 1
    /\ update_all = FALSE
    /\ environ = [BITBUCKET_USERNAME |-> <<"user">>,
                  BITBUCKET_APP_PASSWORD |-> <<"secret">>]
    /\ main_args \in SessionArgs
    /\ file_path = <<>>
    /\ exit_code = <<>>
    /\ main_log = <<>>
    /\ input_status = "ok"
    /\ input_file \in SeqsUpTo(NewVars, MaxMainLocal)
    /\ output_file = <<>>
    /\ Fresh("main", "main")

NextSession ==
    \/ MainStart
    \/ GetEnvironmentUuid
    \/ GetVariables
    \/ ExportVariables
    \/ ExportAllVariables
    \/ ExportSecretKeys
    \/ ReadInputFile
    \/ ImportEntry
    \/ ImportCompleted
    \/ MainReturn
    \/ MainExcept
    \/ MainAgain

SpecSession == InitSession /\ [][NextSession]_vars

----------------------------------------------------------------------------
(* Properties *)

IsWrite(r) == r.method \in {"PUT", "POST"}

\* The positions of the entries of vs that are (flag = TRUE) or are not secured.
Positions(vs, flag) == {j \in 1..Len(vs) : vs[j].secured = flag}

\* The place of position j among the positions P, counted from 1.
Rank(P, j) == Cardinality({m \in P : m <= j})

\* The page urls reached from page u by following at most n links.
RECURSIVE LinkPath(_, _, _)
LinkPath(c, u, n) ==
    IF n = 0 \/ u = 0 THEN <<>> ELSE <<u>> \o LinkPath(c, c[u].next, n - 1)

\* The chain from the first url: finite if it ends before a page repeats.
ChainPath == LinkPath(chain, 1, Len(chain) + 1)

FiniteNonEmptyChain ==
    /\ Len(ChainPath) <= Len(chain)
    /\ \A k \in 1..Len(ChainPath) : chain[ChainPath[k]].values # <<>>

\* The entries of the pages at urls us, page after page.
RECURSIVE PagesConcat(_)
PagesConcat(us) ==
    IF us = <<>> THEN <<>> ELSE chain[Head(us)].values \o PagesConcat(Tail(us))

RequestIds == [k \in 1..Len(requests) |-> requests[k].id]

\* C7: against a finite chain of non-empty pages whose n-th page is the first
\* without a next link, get_variables requests the pages of the chain in order
\* and nothing else (never a page after the n-th), and when it returns it has
\* issued exactly n GETs and returns the pages' entries concatenated in arrival
\* order.
C7_FetchConcatenatesChain ==
    (op = "get_variables" /\ FiniteNonEmptyChain) =>
        /\ \A k \in 1..Len(requests) : IsPageGet(requests[k])
        /\ Len(requests) <= Len(ChainPath)
        /\ RequestIds = SubSeq(ChainPath, 1, Len(requests))
        /\ pc = "done" =>
              /\ Len(requests) = Len(ChainPath)
              /\ variables = PagesConcat(ChainPath)

C7_Witness ==
    /\ op = "get_variables"
    /\ FiniteNonEmptyChain
    /\ pc = "done"
    /\ Len(requests) = 3
    /\ Len(variables) > 3
    /\ Len(chain[requests[1].id].values) # Len(chain[requests[2].id].values)

\* C8: a page with no values ends get_variables at once, whatever next link the
\* page carries: its GET is the last one issued, the fetch returns without an
\* error, and the result is what the earlier pages gave (the empty list after
\* one GET when the first page is empty).
C8_EmptyPageEndsFetch ==
    op = "get_variables" =>
        \A k \in 1..Len(requests) :
            (requests[k].ok /\ chain[requests[k].id].values = <<>>) =>
                /\ k = Len(requests)
                /\ pc = "done"
                /\ error = ""
                /\ variables = PagesConcat(SubSeq(RequestIds, 1, k - 1))
                /\ (k = 1 => variables = <<>>)

C8_Witness ==
    /\ op = "get_variables"
    /\ pc = "done"
    /\ Len(requests) = 2
    /\ chain[requests[2].id].values = <<>>
    /\ chain[requests[2].id].next # 0
    /\ variables # <<>>

\* C9: get_environment_uuid issues exactly one GET, of the environments, and when
\* it is answered returns the uuid of the first environment named
\* deployment_name, or raises ValueError and yields no uuid if there is none.
C9_ResolveFirstMatch ==
    (op = "get_environment_uuid" /\ pc \in {"done", "failed"}) =>
        /\ Len(requests) = 1
        /\ requests[1].method = "GET"
        /\ requests[1].path = "environments"
        /\ requests[1].ok =>
              LET M == {j \in 1..Len(envs) : envs[j].name = deployment_name}
              IN  IF M = {}
                  THEN pc = "failed" /\ error = "ValueError" /\ environment_uuid = 0
                  ELSE /\ pc = "done"
                       /\ error = ""
                       /\ \E j \in M : /\ \A m \in M : j <= m
                                       /\ environment_uuid = envs[j].uuid

C9_Witness ==
    /\ op = "get_environment_uuid"
    /\ pc = "done"
    /\ Len(envs) = 3
    /\ envs[1].name # deployment_name
    /\ envs[2].name = deployment_name
    /\ envs[3].name = deployment_name
    /\ environment_uuid = envs[2].uuid

\* C4: export_variables writes exactly the fetched entries that are not
\* secured, in fetched order, each as {key, value, secured: false} with its value
\* as fetched; no secured entry is written.
C4_ExportNonSecured ==
    (op = "export_variables" /\ pc = "done" /\ variables # <<>>) =>
        /\ Len(output_file) = 1
        /\ LET out == output_file[1]
               P == Positions(variables, FALSE)
           IN  /\ Len(out) = Cardinality(P)
               /\ \A j \in P :
                     out[Rank(P, j)] = [key |-> variables[j].key,
                                        value |-> variables[j].value,
                                        secured |-> FALSE]

C4_Witness ==
    /\ op = "export_variables"
    /\ pc = "done"
    /\ Len(variables) = 3
    /\ ~variables[1].secured
    /\ variables[2].secured
    /\ ~variables[3].secured
    /\ variables[1].value # variables[3].value
    /\ Len(output_file[1]) = 2

\* C5: export_all_variables writes as many entries as were fetched, in the same
\* order, a secured entry with value "" and any other with its value unchanged.
C5_ExportAllRedacts ==
    (op = "export_all_variables" /\ pc = "done" /\ variables # <<>>) =>
        /\ Len(output_file) = 1
        /\ LET out == output_file[1]
           IN  /\ Len(out) = Len(variables)
               /\ \A j \in 1..Len(variables) :
                     /\ out[j].key = variables[j].key
                     /\ out[j].secured = variables[j].secured
                     /\ out[j].value = IF variables[j].secured THEN ""
                                       ELSE variables[j].value
                     /\ DOMAIN out[j] = {"key", "value", "secured"}

C5_Witness ==
    /\ op = "export_all_variables"
    /\ pc = "done"
    /\ Len(variables) = 3
    /\ variables[1].secured
    /\ ~variables[2].secured
    /\ variables[3].secured
    /\ output_file[1][1].value = ""
    /\ output_file[1][2].value = "y"

\* C6: export_secret_keys writes exactly the keys of the fetched entries that
\* are secured, in fetched order: bare keys, none of a non-secured entry, and no
\* value.
C6_ExportSecretKeys ==
    (op = "export_secret_keys" /\ pc = "done" /\ variables # <<>>) =>
        /\ Len(output_file) = 1
        /\ LET out == output_file[1]
               P == Positions(variables, TRUE)
           IN  /\ Len(out) = Cardinality(P)
               /\ \A j \in P : out[Rank(P, j)] = variables[j].key
               /\ \A k \in 1..Len(out) : out[k] \in Keys

C6_Witness ==
    /\ op = "export_secret_keys"
    /\ pc = "done"
    /\ Len(variables) = 3
    /\ variables[1].secured
    /\ ~variables[2].secured
    /\ variables[3].secured
    /\ variables[1].key # variables[3].key
    /\ variables[2].key = variables[3].key
    /\ Len(output_file[1]) = 2

\* The entries of the input file update_vars is called for in this run's mode.
IsCandidate(var) == HasPayloadFields(var)

C2_PlainImportSkipsSecrets ==
    (op = "import_variables" /\ ~update_all) =>
        /\ \A c \in 1..Len(calls) :
              LET var == import_vars[calls[c].entry]
              IN  ~("secured" \in DOMAIN var /\ var.secured)
        /\ \A k \in 1..Len(requests) :
              IsWrite(requests[k]) => requests[k].body[1].secured = FALSE

C2_Witness ==
    /\ op = "import_variables"
    /\ ~update_all
    /\ pc = "done"
    /\ Len(import_vars) = 2
    /\ "secured" \in DOMAIN import_vars[1]
    /\ import_vars[1].secured
    /\ Len(calls) = 1
    /\ calls[1].entry = 2
    /\ Len(SelectSeq(requests, IsWrite)) = 1

IsPost(r) == r.method = "POST"

\* The creates of a request log are for pairwise different keys.
OneCreatePerKey(log) ==
    \A a, b \in 1..Len(log) :
        (a < b /\ IsPost(log[a]) /\ IsPost(log[b])) =>
            log[a].body[1].key # log[b].body[1].key

\* C3 as stated: for every input file and every remote store, a second run of
\* the same import after a first (both running to completion) leaves the store
\* as the first run left it and issues no POST.
C3_ImportIdempotent ==
    (op = "import_variables" /\ runs # <<>> /\ pc = "done") =>
        /\ store = runs[1].store
        /\ \A k \in 1..Len(requests) : ~IsPost(requests[k])

\* C3 amended: the same, for the input files whose first run created at most
\* one variable per key (no key missing from the remote store is repeated
\* among the entries reconciled).
C3_ImportIdempotentDistinctCreates ==
    (op = "import_variables" /\ runs # <<>> /\ pc = "done"
        /\ OneCreatePerKey(runs[1].requests)) =>
        /\ store = runs[1].store
        /\ \A k \in 1..Len(requests) : ~IsPost(requests[k])

C3_Witness ==
    /\ op = "import_variables"
    /\ runs # <<>>
    /\ pc = "done"
    /\ Len(SelectSeq(runs[1].requests, IsPost)) = 1
    /\ Len(SelectSeq(runs[1].requests, IsWrite)) = 2
    /\ Len(SelectSeq(requests, IsWrite)) = 2
    /\ store = runs[1].store

\* A write that succeeded after request k and replaced the entry with uuid u.
Overwritten(u, k) ==
    \E m \in (k + 1)..Len(requests) :
        requests[m].ok /\ requests[m].method = "PUT" /\ requests[m].id = u

SameFields(e, body) ==
    e.key = body.key /\ e.value = body.value /\ e.secured = body.secured

OkPostsUpTo(k) == Cardinality({m \in 1..k : requests[m].ok /\ IsPost(requests[m])})

\* C10: a write that fails is the last request of the run and ends it with the
\* transport error; no call issues a second request (no retry) and no entry is
\* taken up after the one that failed; the writes that succeeded before stay in
\* the remote store (existing entries as updated, created entries appended),
\* and entries not written are as fetched.
C10_AbortWithoutRollback ==
    op = "import_variables" =>
        /\ \A k \in 1..Len(requests) :
              (IsWrite(requests[k]) /\ ~requests[k].ok) =>
                  /\ k = Len(requests)
                  /\ pc = "failed"
                  /\ error = "RequestException"
                  /\ calls[Len(calls)].to = k
                  /\ calls[Len(calls)].entry = i
        /\ \A c \in 1..Len(calls) :
              /\ calls[c].to - calls[c].from <= 1
              /\ calls[c].entry <= i
              /\ \A d \in 1..Len(calls) : c < d => calls[c].entry < calls[d].entry
        /\ (pc = "failed" /\ calls # <<>>) =>
              /\ Len(store) = Len(variables) + OkPostsUpTo(Len(requests))
              /\ \A j \in 1..Len(variables) :
                    ~Overwritten(variables[j].uuid, 0) => store[j] = variables[j]
              /\ \A k \in 1..Len(requests) :
                    (IsWrite(requests[k]) /\ requests[k].ok) =>
                        LET e == IF IsPost(requests[k])
                                 THEN store[Len(variables) + OkPostsUpTo(k)]
                                 ELSE CHOOSE x \in {store[j] : j \in 1..Len(store)} :
                                          x.uuid = requests[k].id
                        IN  ~Overwritten(e.uuid, k) => SameFields(e, requests[k].body[1])

C10_Witness ==
    /\ op = "import_variables"
    /\ pc = "failed"
    /\ error = "RequestException"
    /\ runs = <<>>
    /\ Len(import_vars) = 2
    /\ i = 2
    /\ Len(calls) = 2
    /\ requests[calls[1].to].ok
    /\ requests[calls[1].to].method = "PUT"
    /\ ~requests[calls[2].to].ok
    /\ store # variables

Uuids(st) == {st[j].uuid : j \in 1..Len(st)}

LastRequest(rs) == rs[Len(rs)]

\* C11: no run of a session of exports and imports deletes a remote variable.
\* Every request is a GET, a PUT or a POST; a POST names no uuid and a PUT names
\* the uuid of an entry the remote holds; and every step keeps the uuids the
\* remote holds, a new uuid being the one the remote assigned to the entry a
\* POST just created (absent -> created) and a changed entry being the one a PUT
\* just addressed (present -> updated).
C11_NeverDeletes ==
    /\ [](\A k \in 1..Len(requests) :
            LET r == requests[k]
            IN  /\ r.method \in {"GET", "PUT", "POST"}
                /\ r.method = "POST" =>
                      r.id = 0 /\ "uuid" \notin DOMAIN r.body[1]
                /\ r.method = "PUT" => r.id \in Uuids(store))
    /\ [][/\ Uuids(store) \subseteq Uuids(store')
          /\ Len(store') >= Len(store)
          /\ \A j \in 1..Len(store') :
                IF j > Len(store)
                THEN /\ store'[j].uuid = next_uuid
                     /\ store'[j].uuid \notin Uuids(store)
                     /\ Len(requests') = Len(requests) + 1
                     /\ LastRequest(requests').method = "POST"
                ELSE /\ store'[j].uuid = store[j].uuid
                     /\ store'[j] # store[j] =>
                           /\ Len(requests') = Len(requests) + 1
                           /\ LastRequest(requests').method = "PUT"
                           /\ LastRequest(requests').id = store[j].uuid]_vars

C11_Witness ==
    /\ op = "import_variables"
    /\ pc = "exited"
    /\ exit_code = <<0>>
    /\ \E k \in 1..Len(requests) :
          /\ requests[k].method = "PUT"
          /\ requests[k].ok
          /\ requests[k].id > MaxMainStore
    /\ Len(output_file) = 1
    /\ \E j \in 1..Len(store) : store[j].value = "old"

Exports == {"export_variables", "export_all_variables", "export_secret_keys"}

\* C12: when get_variables returned no variables, the step an export takes next
\* is its return: it ends normally, without an error, and without opening or
\* writing the output file, so that whatever the path held is still there.
C12_EmptyFetchWritesNothing ==
    [][(pc = "export" /\ variables = <<>>) =>
          /\ op \in Exports
          /\ pc' = "done"
          /\ error' = ""
          /\ output_file' = output_file]_vars

C12_Witness ==
    /\ op \in Exports
    /\ pc = "done"
    /\ variables = <<>>
    /\ error = ""
    /\ Len(requests) = 2
    /\ output_file = <<Previous(op)>>

\* The file at the output path holds part of an array only.
IsPartial(file) == Len(file) = 2

\* C13: writing an export file is all-or-nothing: when an export has failed in
\* the opening, the writing or the closing of the output file, the path holds
\* what it held before or the complete new array, never a part of one.
C13_WriteAllOrNothing ==
    (op \in Exports /\ pc = "failed" /\ error \in {"PermissionError", "OSError"}) =>
        ~IsPartial(output_file)

\* The error kinds of the operations: the deployment name is not found, a
\* request fails, the input file is missing or cannot be read.
OperationError ==
    \/ error \in {"ValueError", "RequestException"}
    \/ /\ op = "import_variables"
       /\ error \in {"FileNotFoundError", "PermissionError", "JSONDecodeError"}

\* C14: an error raised inside the operation main started (deployment name not
\* found, transport error, missing or unreadable input file) is not recovered:
\* once it is raised no further request is issued, main logs it as an error and
\* the process exits with code 1.
C14_ErrorsReachMain ==
    /\ []((pc = "exited" /\ OperationError) =>
            /\ exit_code = <<1>>
            /\ Len(main_log) = 1
            /\ main_log[1].level = "error")
    /\ [][(pc = "failed" /\ OperationError) =>
            /\ pc' = "exited"
            /\ requests' = requests
            /\ store' = store]_vars

Unset(t) == t = <<>> \/ t = <<"">>

\* C15: when the username or the application password is absent or empty, main
\* exits with code 1 before any network call: the run issues no request, starts
\* none of the operations and touches no file.
C15_NoCredentialsNoCall ==
    (Unset(environ.BITBUCKET_USERNAME) \/ Unset(environ.BITBUCKET_APP_PASSWORD)) =>
        /\ requests = <<>>
        /\ op = "main"
        /\ pc \in {"main", "exited"}
        /\ pc = "exited" => exit_code = <<1>>
        /\ file_path = <<>>
        /\ calls = <<>>
        /\ ~IsPartial(output_file)

C15_Witness ==
    /\ environ.BITBUCKET_USERNAME = <<"user">>
    /\ environ.BITBUCKET_APP_PASSWORD = <<"">>
    /\ main_args.import_all = <<"vars.json">>
    /\ pc = "exited"
    /\ exit_code = <<1>>
    /\ requests = <<>>
    /\ main_log # <<>>

\* The flag that was given on the command line.
Given == CHOOSE g \in FlagSet : main_args[g] # <<>>

\* C16: a run of main with the credentials present executes the one operation
\* whose flag was given, with the flag's argument as file path and update_all
\* true only for import-all, and it exits 0, success logged, only after that
\* operation has completed.
C16_ExactlyOneOperation ==
    (~Unset(environ.BITBUCKET_USERNAME) /\ ~Unset(environ.BITBUCKET_APP_PASSWORD)
     /\ pc # "main") =>
        /\ op = (CASE Given = "output" -> "export_variables"
                   [] Given = "all_vars_output" -> "export_all_variables"
                   [] Given = "export_secret_keys" -> "export_secret_keys"
                   [] Given = "import_file" -> "import_variables"
                   [] Given = "import_all" -> "import_variables")
        /\ file_path = main_args[Given]
        /\ update_all = (Given = "import_all")
        /\ exit_code = <<0>> =>
              /\ main_log = <<[level |-> "info", msg |-> "Operation completed successfully"]>>
              /\ error = ""
              /\ Len(requests) >= 2
              /\ op = "import_variables" => i = Len(import_vars) + 1
              /\ op \in Exports => (variables = <<>> \/ Len(output_file) = 1)

\* C17: in a plain import a local entry without a secured field is imported as
\* not secured: it is not skipped (update_vars is called for it once the loop
\* has reached it) and the call issues exactly one request, a PUT or a POST.
C17_MissingSecuredImported ==
    (op = "import_variables" /\ ~update_all) =>
        /\ \A j \in 1..Len(import_vars) :
              (j < i /\ "secured" \notin DOMAIN import_vars[j]) =>
                  Cardinality({c \in 1..Len(calls) : calls[c].entry = j}) = 1
        /\ \A c \in 1..Len(calls) :
              "secured" \notin DOMAIN calls[c].var =>
                  /\ calls[c].to = calls[c].from + 1
                  /\ IsWrite(requests[calls[c].to])

\* C18: import_variables fetches the remote list once, before its first write:
\* after a write the run issues writes only, and the list the fetch returned is
\* the same at every step of the loop. Every call decides on that list alone:
\* a PUT to the uuid of its first entry with the key if it has one, else a POST,
\* whatever this run or another client has created or changed at the remote
\* since the fetch.
C18_DecidesOnSnapshot ==
    /\ [](/\ \A k, m \in 1..Len(requests) :
                (k < m /\ IsWrite(requests[k])) => IsWrite(requests[m])
          /\ Cardinality({k \in 1..Len(requests) : requests[k].path = "environments"}) <= 1
          /\ \A k, m \in 1..Len(requests) :
                (k < m /\ IsPageGet(requests[k]) /\ IsPageGet(requests[m])) =>
                    requests[k].id < requests[m].id
          /\ \A c \in 1..Len(calls) :
                LET r == requests[calls[c].to]
                    M == {j \in 1..Len(variables) : variables[j].key = calls[c].var.key}
                IN  /\ calls[c].to = calls[c].from + 1
                    /\ IF M = {}
                       THEN r.method = "POST"
                       ELSE /\ r.method = "PUT"
                            /\ \E j \in M : /\ \A m \in M : j <= m
                                            /\ r.id = variables[j].uuid)
    /\ [][pc = "loop" => variables' = variables]_vars

C18_Witness ==
    /\ pc = "done"
    /\ Len(external) = 1
    /\ Len(calls) = 2
    /\ external[1].at < calls[1].to
    /\ external[1].created = calls[1].var.key
    /\ calls[2].var.key = calls[1].var.key
    /\ requests[calls[1].to].method = "POST"
    /\ requests[calls[1].to].ok
    /\ requests[calls[2].to].method = "POST"
    /\ requests[calls[2].to].ok

\* The entries of the input file that an import passes to update_vars.
Imported ==
    {j \in 1..Len(import_vars) :
        update_all \/ ~("secured" \in DOMAIN import_vars[j] /\ import_vars[j].secured)}

Writes == SelectSeq(requests, IsWrite)

\* C19: the writes of an import that completed are the entries of the input file
\* in file order, one request an entry: all of them with update_all, all but
\* the secured ones without.
C19_WritesMirrorFile ==
    (op = "import_variables" /\ pc = "done") =>
        /\ import_vars = input_file
        /\ Len(Writes) = Cardinality(Imported)
        /\ \A j \in Imported :
              SameFields(import_vars[j], Writes[Rank(Imported, j)].body[1])

C19_Witness ==
    /\ op = "import_variables"
    /\ pc = "done"
    /\ runs = <<>>
    /\ ~update_all
    /\ Len(import_vars) = 2
    /\ import_vars[1].key # import_vars[2].key
    /\ Len(Writes) = 2
    /\ Writes[1].body[1].key = import_vars[1].key
    /\ Writes[1].method = "POST"
    /\ Writes[2].method = "PUT"

\* A page that ends the fetch: it has no values or carries no next link.
EndsFetch(page) == page.values = <<>> \/ page.next = 0

\* The chain from the first url comes to a page that ends the fetch; if it does
\* not, all its pages have values and a link, and the links lead back to a page
\* that was requested before.
Terminating == \E k \in 1..Len(ChainPath) : EndsFetch(chain[ChainPath[k]])

\* C20: get_variables returns only on a response without a next link or without
\* values. It returns, or raises on a failed request, for every chain that comes
\* to such a page, however long. Against a chain whose pages all have values
\* and lead back to a page already requested it never returns: a repeated link
\* is followed like any other, the loop condition stays true, and the GETs go
\* on until a request fails (in this model: or the cut at MaxGets is reached).
C20_StopsOnlyAtChainEnd ==
    /\ [](pc = "done" =>
            /\ requests # <<>>
            /\ LastRequest(requests).ok
            /\ EndsFetch(chain[LastRequest(requests).id]))
    /\ [](pc = "failed" => ~LastRequest(requests).ok)
    /\ [](~Terminating => (pc # "done" /\ (pc = "fetch" => url # 0)))
    /\ (Terminating => <>(pc \in {"done", "failed"}))
    /\ (~Terminating => <>(pc = "failed" \/ Len(requests) = MaxGets))

C20_Witness ==
    /\ ~Terminating
    /\ pc = "fetch"
    /\ Len(requests) = MaxGets
    /\ \A k \in 1..Len(requests) : requests[k].ok
    /\ requests[MaxGets].id = requests[MaxGets - 2].id
    /\ requests[MaxGets].id # requests[MaxGets - 1].id

KeysUnique(st) == \A a, b \in 1..Len(st) : a < b => st[a].key # st[b].key

\* C21: an import run issues at most one POST per key, whatever the input file,
\* files that repeat a key included; so when the keys the remote held at the
\* fetch were unique, the keys it holds stay unique throughout the run.
C21_AtMostOneCreatePerKey ==
    (op = "import_variables" /\ runs = <<>>) =>
        /\ OneCreatePerKey(requests)
        /\ (calls # <<>> /\ KeysUnique(variables)) => KeysUnique(store)

\* C22: in an import without update_all no PUT is addressed to a remote entry
\* that is secured: the entries the fetch returned as secured are the target of
\* no PUT and are held by the remote as they were, value and flag.
C22_PlainImportSparesRemoteSecrets ==
    (op = "import_variables" /\ ~update_all) =>
        \A j \in 1..Len(variables) :
            variables[j].secured =>
                /\ \A k \in 1..Len(requests) :
                      requests[k].method = "PUT" => requests[k].id # variables[j].uuid
                /\ store[j] = variables[j]

\* The run was started with one of the three export flags.
ExportFlagGiven == Given \in {"output", "all_vars_output", "export_secret_keys"}

\* C23: a run of one of the three exports is read-only towards the remote: its
\* requests are GETs, the environments first and then pages of the variables,
\* update_vars is never called, and no step of the run, whether it ends well or
\* in an error, changes what the remote holds.
C23_ExportsReadOnly ==
    /\ [](ExportFlagGiven =>
            /\ \A k \in 1..Len(requests) :
                  /\ requests[k].method = "GET"
                  /\ requests[k].body = <<>>
                  /\ IF k = 1 THEN requests[k].path = "environments"
                              ELSE IsPageGet(requests[k])
            /\ calls = <<>>)
    /\ [][ExportFlagGiven => (store' = store /\ next_uuid' = next_uuid)]_vars

C23_Witness ==
    /\ ExportFlagGiven
    /\ op = "export_all_variables"
    /\ pc = "exited"
    /\ error = "OSError"
    /\ Len(requests) = 3
    /\ Len(store) = 2
    /\ store[2].value = "new"

====
